---- MODULE Spec2Model ----
(***************************************************************************)
(* State-machine model of MatrixChatConnection                             *)
(* (play/src/front/Api/Iframe/state.ts): the room/folder tree kept by the  *)
(* connection, the remote-event handlers that mutate it, and the bounded   *)
(* wait for the next sync; and of WorkadventureStateCommands of the same   *)
(* file: the variables of the iframe state.                                *)
(*                                                                         *)
(* The Matrix client (matrix-js-sdk) is the environment: it owns each      *)
(* room's membership of the local user and its declared parent space, and  *)
(* delivers the events.  MatrixRoomFolder and MatrixChatRoom are not part  *)
(* of the modelled file; the folder operations (constructor, getNode,      *)
(* deleteNode, getRoomsIdInNode) follow the design document.               *)
(***************************************************************************)
EXTENDS Integers, Sequences, FiniteSets, TLC

VARIABLES
    membership,      \* backend: room.getMyMembership() of each id, "unknown" when client.getRoom(id) is null
    parentOf,        \* backend: first m.space.parent state key of each id, NoId when none
    roomList,        \* this.roomList: MapStore in insertion order, as the sequence of its keys
    roomFolders,     \* this.roomFolders: MapStore in insertion order, as the sequence of its folders
    selectedRoom,    \* the selectedRoom store (id of the open room, NoId when undefined)
    pendingCleanup,  \* how many promises of getRoomsIdInNode() wait for their then/catch, by the ids they hold
    nEvents,         \* how many remote events have been delivered
    roomType,        \* MatrixChatRoom.type of each id: "direct" or "multiple"
    membersId,       \* MatrixChatRoom.membersId of each id
    lookup,          \* the last call of getDirectRoomFor: its argument and what it returned
    client,          \* this.client is defined
    connectionStatus,\* the connectionStatus store
    syncListeners,   \* the waits whose resolveIfIsASyncingEvent is registered for ClientEvent.Sync
    waits,           \* the calls of waitForNextSync: promise, timer and time elapsed
    listeners,       \* the kinds of client event the connection's own listeners are registered for
    cleared,         \* clearListener() has returned
    unread,          \* get(room.hasUnreadMessages) of the node of each id
    hasUnreadMessages, \* the value of the derived store hasUnreadMessages
    requests,        \* the calls of the request operations: operation, argument, stage and result
    roomCreationInProgress, \* the roomCreationInProgress store
    variables,       \* WorkadventureStateCommands.variables: the value stored for each key, Absent where the map has no entry
    variableSubscribers, \* the keys for which variableSubscribers holds a Subject
    emitted,         \* what the Subjects were given by next(), in order
    queries,         \* the queries handed to queryWorkadventure, in order
    saveReturned     \* the promise returned by the last saveVariable

backendVars == <<membership, parentOf>>
treeVars == <<roomList, roomFolders, selectedRoom, pendingCleanup>>
roomVars == <<roomType, membersId, lookup>>
syncVars == <<client, connectionStatus, syncListeners, waits>>
opsVars == <<requests, roomCreationInProgress>>
stateVars == <<variables, variableSubscribers, emitted, queries, saveReturned>>
vars == <<membership, parentOf, roomList, roomFolders, selectedRoom, pendingCleanup, nEvents,
          roomType, membersId, lookup, client, connectionStatus, syncListeners, waits,
          listeners, cleared, unread, hasUnreadMessages, requests, roomCreationInProgress,
          variables, variableSubscribers, emitted, queries, saveReturned>>

-----------------------------------------------------------------------------
(* The universe of the environment *)

Spaces == {"F1", "F2"}
ChatRooms == {"R1", "R2"}
IDs == Spaces \cup ChatRooms
NoId == "-"
IdOrder == <<"F1", "F2", "R1", "R2">>

Memberships == {"invite", "join", "leave", "ban"}
Unknown == "unknown"

\* the remote events delivered in one run
MaxEvents == 6

\* the remote events delivered before a lookup of a direct room
LookupEvents == 4

\* the calls of waitForNextSync in one run
MaxWaits == 2

\* how many remote events are delivered where the derived stores are followed
ViewEvents == 3

\* how many remote events are delivered around clearListener
TeardownEvents == 3

\* how many remote events are delivered while request operations run
OpsEvents == 2

\* how many calls of request operations are followed
MaxRequests == 2
RequestIds == 1..MaxRequests
WaitIds == 1..MaxWaits

\* setTimeout(..., 30000), in seconds
SyncTimeout == 30

Users == {"me", "u1", "u2"}
RoomTypes == {"direct", "multiple"}
SyncStates == {"PREPARED", "SYNCING", "ERROR", "RECONNECTING", "STOPPED", "CATCHUP"}

\* The backend is trusted to keep the space hierarchy acyclic: F1 above F2 above rooms.
ParentChoices(i) ==
    IF i = "F1" THEN {NoId}
    ELSE IF i = "F2" THEN {NoId, "F1"}
    ELSE {NoId, "F1", "F2"}

ChildLinks == {pc \in Spaces \X IDs : pc[1] \in ParentChoices(pc[2])}

isSpaceRoom(i) == i \in Spaces

\* the results of getRoomsIdInNode() that delete something
Cleanups == (SUBSET ChatRooms) \ {{}}

-----------------------------------------------------------------------------
(* MapStore (a Map in insertion order) *)

Range(s) == {s[k] : k \in 1..Len(s)}

\* Map keyed by id whose values carry nothing but the id (MatrixChatRoom)
MapHas(s, i) == \E k \in 1..Len(s) : s[k] = i
MapDelete(s, i) == SelectSeq(s, LAMBDA x : x # i)
MapSet(s, i) == IF MapHas(s, i) THEN s ELSE Append(s, i)

\* Map keyed by id whose values are folders
FolderHas(fs, i) == \E k \in 1..Len(fs) : fs[k].id = i
FolderDelete(fs, i) == SelectSeq(fs, LAMBDA f : f.id # i)
FolderSet(fs, f) ==
    IF FolderHas(fs, f.id)
    THEN [k \in 1..Len(fs) |-> IF fs[k].id = f.id THEN f ELSE fs[k]]
    ELSE Append(fs, f)

-----------------------------------------------------------------------------
(* MatrixRoomFolder *)

isUserMemberOrInvited(m) == m = "invite" \/ m = "join"

\* new MatrixRoomFolder(room): the folder with its already-known children
RECURSIVE NewFolder(_, _)
NewFolder(i, b) ==
    LET kids == SelectSeq(IdOrder, LAMBDA c :
                    b.parentOf[c] = i /\ isUserMemberOrInvited(b.membership[c]))
        sub == SelectSeq(kids, isSpaceRoom)
    IN  [id |-> i,
         rooms |-> SelectSeq(kids, LAMBDA c : ~isSpaceRoom(c)),
         folders |-> [k \in 1..Len(sub) |-> NewFolder(sub[k], b)]]

\* folder.getNode(id): "room", "folder" or "none" for the first match
RECURSIVE getNode(_, _)
getNode(f, i) ==
    IF MapHas(f.rooms, i) THEN "room"
    ELSE IF FolderHas(f.folders, i) THEN "folder"
    ELSE LET hit == {k \in 1..Len(f.folders) : getNode(f.folders[k], i) # "none"}
         IN  IF hit = {} THEN "none"
             ELSE getNode(f.folders[CHOOSE k \in hit : \A j \in hit : k <= j], i)

\* folder.deleteNode(id)
RECURSIVE deleteNode(_, _)
deleteNode(f, i) ==
    LET kept == FolderDelete(f.folders, i)
    IN  [id |-> f.id,
         rooms |-> MapDelete(f.rooms, i),
         folders |-> [k \in 1..Len(kept) |-> deleteNode(kept[k], i)]]

\* folder.getRoomsIdInNode(): the ids of the rooms of the folder's subtree
RECURSIVE getRoomsIdInNode(_)
getRoomsIdInNode(f) ==
    Range(f.rooms) \cup UNION {getRoomsIdInNode(f.folders[k]) : k \in 1..Len(f.folders)}

-----------------------------------------------------------------------------
(* MatrixChatConnection: the tree operations.  s is the connection's own     *)
(* state [roomList, roomFolders, selectedRoom, pendingCleanup], b the        *)
(* backend [membership, parentOf] the Room objects are read from.            *)

getFirstParentRoomID(i, b) == b.parentOf[i]

\* folder.rooms.set(id, new MatrixChatRoom(room)) or folder.folders.set(id, new MatrixRoomFolder(room))
AddChild(f, c, b) ==
    IF isSpaceRoom(c)
    THEN [f EXCEPT !.folders = FolderSet(@, NewFolder(c, b))]
    ELSE [f EXCEPT !.rooms = MapSet(@, c)]

\* the same insertion done on the folder that f.getNode(pid) returns
RECURSIVE AddToNode(_, _, _, _)
AddToNode(f, pid, c, b) ==
    IF FolderHas(f.folders, pid)
    THEN [f EXCEPT !.folders =
            [k \in 1..Len(@) |-> IF @[k].id = pid THEN AddChild(@[k], c, b) ELSE @[k]]]
    ELSE LET hit == {k \in 1..Len(f.folders) : getNode(f.folders[k], pid) # "none"}
             k0 == CHOOSE k \in hit : \A j \in hit : k <= j
         IN  [f EXCEPT !.folders[k0] = AddToNode(@, pid, c, b)]

\* the root folders that are, or hold, the folder pid
ParentHits(rf, pid) ==
    {k \in 1..Len(rf) : rf[k].id = pid \/ getNode(rf[k], pid) = "folder"}

FirstOf(S) == CHOOSE k \in S : \A j \in S : k <= j

findRoomOrFolder(s, i) ==
    \/ MapHas(s.roomList, i)
    \/ \E k \in 1..Len(s.roomFolders) :
          s.roomFolders[k].id = i \/ getNode(s.roomFolders[k], i) # "none"

\* moveRoomToParentFolder without the folder.getNode(parentID) branch
moveRoomToParentFolder_rootOnly(s, c, pid, b) ==
    LET hit == {k \in 1..Len(s.roomFolders) : s.roomFolders[k].id = pid}
    IN  IF hit = {} THEN s
        ELSE [s EXCEPT !.roomFolders[FirstOf(hit)] = AddChild(@, c, b)]

moveRoomToParentFolder(s, c, pid, b) ==
    LET hit == ParentHits(s.roomFolders, pid)
    IN  IF hit = {} THEN s
        ELSE LET k == FirstOf(hit)
             IN  [s EXCEPT !.roomFolders[k] =
                    IF @.id = pid THEN AddChild(@, c, b) ELSE AddToNode(@, pid, c, b)]

tryAddRoomToParentFolder(s, c, pid, b) ==
    LET hit == ParentHits(s.roomFolders, pid)
    IN  IF hit = {} THEN [s |-> s, isAdded |-> FALSE]
        ELSE IF isSpaceRoom(c)
        THEN [s |-> [s EXCEPT !.roomFolders = FolderDelete(@, c)], isAdded |-> TRUE]
        ELSE LET k == FirstOf(hit)
             IN  [s |-> [s EXCEPT !.roomFolders[k] =
                            IF @.id = pid THEN [@ EXCEPT !.rooms = MapSet(@, c)]
                            ELSE AddToNode(@, pid, c, b)],
                  isAdded |-> TRUE]

createAndAddNewRootRoom(s, i) == [s EXCEPT !.roomList = MapSet(@, i)]

createAndAddNewRootFolder(s, i, b) ==
    LET newFolder == NewFolder(i, b)
        roomIDs == getRoomsIdInNode(newFolder)
    IN  [s EXCEPT !.roomFolders = FolderSet(@, newFolder),
                  \* a promise that resolves to no id deletes nothing: it is not tracked
                  !.pendingCleanup = IF roomIDs = {} THEN @ ELSE [@ EXCEPT ![roomIDs] = @ + 1]]

handleOrphanRoom(s, i, b) ==
    IF isSpaceRoom(i) THEN createAndAddNewRootFolder(s, i, b)
    ELSE createAndAddNewRootRoom(s, i)

\* manageRoomOrFolder without the findRoomOrFolder(roomId) return
manageRoomOrFolder_noFind(s, i, b) ==
    IF ~isUserMemberOrInvited(b.membership[i]) THEN s
    ELSE LET parentRoomID == getFirstParentRoomID(i, b)
         IN  IF parentRoomID # NoId
             THEN LET r == tryAddRoomToParentFolder(s, i, parentRoomID, b)
                  IN  IF ~r.isAdded /\ ~isSpaceRoom(i)
                      THEN createAndAddNewRootRoom(r.s, i)
                      ELSE r.s
             ELSE handleOrphanRoom(s, i, b)

manageRoomOrFolder(s, i, b) ==
    IF findRoomOrFolder(s, i) THEN s
    ELSE IF ~isUserMemberOrInvited(b.membership[i]) THEN s
    ELSE LET parentRoomID == getFirstParentRoomID(i, b)
         IN  IF parentRoomID # NoId
             THEN LET r == tryAddRoomToParentFolder(s, i, parentRoomID, b)
                  IN  IF ~r.isAdded /\ ~isSpaceRoom(i)
                      THEN createAndAddNewRootRoom(r.s, i)
                      ELSE r.s
             ELSE handleOrphanRoom(s, i, b)

\* deleteRoom without selectedRoom.set(undefined)
deleteRoom_keepSelection(s, i) ==
    IF MapHas(s.roomList, i) THEN [s EXCEPT !.roomList = MapDelete(@, i)]
    ELSE IF FolderHas(s.roomFolders, i) THEN s
    ELSE [s EXCEPT !.roomFolders = [k \in 1..Len(@) |-> deleteNode(@[k], i)]]

deleteRoom(s, i) ==
    IF MapHas(s.roomList, i) THEN [s EXCEPT !.roomList = MapDelete(@, i)]
    ELSE IF FolderHas(s.roomFolders, i) THEN s
    ELSE [s EXCEPT !.roomFolders = [k \in 1..Len(@) |-> deleteNode(@[k], i)],
                   !.selectedRoom = IF @ = i THEN NoId ELSE @]

-----------------------------------------------------------------------------
(* MatrixChatConnection: the handlers of the client's events *)

onClientEventRoom(s, i, b) == manageRoomOrFolder(s, i, b)

onClientEventDeleteRoom(s, i) == deleteRoom(s, i)

onRoomNameEvent(s, i, b) ==
    IF findRoomOrFolder(s, i) THEN s ELSE manageRoomOrFolder(s, i, b)

\* an m.space.child state event of room pid with state key c
onRoomStateEvent(s, c, pid, b) ==
    IF b.membership[c] = Unknown THEN s
    ELSE LET s1 == [s EXCEPT !.roomList = MapDelete(@, c),
                             !.roomFolders = FolderDelete(@, c)]
         IN  IF b.membership[pid] = Unknown THEN s1
             ELSE moveRoomToParentFolder(s1, c, pid, b)

onRoomEventMembership(s, i, m, prevMembership, b) ==
    LET existingMatrixChatRoom == MapHas(s.roomList, i) \/ FolderHas(s.roomFolders, i)
    IN  IF m # prevMembership /\ existingMatrixChatRoom /\ m = "join"
        THEN manageRoomOrFolder([s EXCEPT !.roomList = MapDelete(@, i)], i, b)
        ELSE IF m # prevMembership /\ existingMatrixChatRoom /\ m = "invite"
        THEN createAndAddNewRootRoom(s, i)
        ELSE IF m = "leave" \/ m = "ban" THEN deleteRoom(s, i)
        ELSE s

-----------------------------------------------------------------------------
(* Where a node is held *)

\* the children maps of the subtree of f that hold i, each named by its path from the root
RECURSIVE HoldersIn(_, _, _)
HoldersIn(f, i, path) ==
    LET here == Append(path, f.id)
    IN  (IF MapHas(f.rooms, i) THEN {Append(here, "rooms")} ELSE {})
        \cup (IF FolderHas(f.folders, i) THEN {Append(here, "folders")} ELSE {})
        \cup UNION {HoldersIn(f.folders[k], i, here) : k \in 1..Len(f.folders)}

\* every container that holds i: the root room list, the root folder list, a folder's children
Holders(s, i) ==
    (IF MapHas(s.roomList, i) THEN {<<"roomList">>} ELSE {})
    \cup (IF FolderHas(s.roomFolders, i) THEN {<<"roomFolders">>} ELSE {})
    \cup UNION {HoldersIn(s.roomFolders[k], i, <<>>) : k \in 1..Len(s.roomFolders)}

-----------------------------------------------------------------------------
(* The state machine *)

Cur == [roomList |-> roomList, roomFolders |-> roomFolders,
        selectedRoom |-> selectedRoom, pendingCleanup |-> pendingCleanup]

Backend == [membership |-> membership, parentOf |-> parentOf]

\* the backend once room i has membership m and first parent p
BackendWith(i, m, p) ==
    [membership |-> [membership EXCEPT ![i] = m], parentOf |-> [parentOf EXCEPT ![i] = p]]

\* the parents room i may declare when a membership event is delivered for it:
\* a room the client did not know arrives with its state, a known room keeps it
ParentsAtMembership(i) ==
    IF membership[i] = Unknown THEN ParentChoices(i) ELSE {parentOf[i]}

\* the callback of derived(this.roomList, ...) for hasUnreadMessages: every room of the
\* root list is subscribed to, each subscription sets the store to the OR of their
\* flags; with no room nothing is set and the store keeps its value
refreshUnread(rl, flags, prev) ==
    IF Len(rl) = 0 THEN prev ELSE \E k \in 1..Len(rl) : flags[rl[k]]

Apply(s) ==
    /\ roomList' = s.roomList
    /\ roomFolders' = s.roomFolders
    /\ selectedRoom' = s.selectedRoom
    /\ pendingCleanup' = s.pendingCleanup
    /\ hasUnreadMessages' = refreshUnread(s.roomList, unread, hasUnreadMessages)

\* a remote event is delivered to the handlers registered by startMatrixClient
Delivered(kind) ==
    /\ client
    /\ kind \in listeners
    /\ nEvents < MaxEvents
    /\ nEvents' = nEvents + 1
    /\ UNCHANGED <<roomVars, syncVars, opsVars, stateVars, listeners, cleared, unread>>

NoLookup == [userID |-> NoId, room |-> NoId]

NoWait == [promise |-> "none", timer |-> FALSE, elapsed |-> 0, notified |-> FALSE]

\* the client events startMatrixClient registers a listener for
AllListeners == {"Sync", "Room", "DeleteRoom", "MyMembership", "RoomState", "Name"}

NoRequest == [op |-> "none", arg |-> NoId, stage |-> "idle", listening |-> FALSE,
              roomId |-> NoId, outcome |-> "pending", value |-> NoId]

\* the keys and the values of the iframe state: undefined, null, NaN, a number, a string
\* and a reference to an object
Keys == {"k1", "k2"}
Absent == "absent"
JsValues == {"undefined", "null", "NaN", "1", "s", "o1"}

\* no variable is stored, no Subject exists, nothing was emitted or sent
NoVariables ==
    /\ variables = [k \in Keys |-> Absent]
    /\ variableSubscribers = {}
    /\ emitted = <<>>
    /\ queries = <<>>
    /\ saveReturned = "none"

Init ==
    /\ membership = [i \in IDs |-> Unknown]
    /\ parentOf = [i \in IDs |-> NoId]
    /\ roomList = <<>>
    /\ roomFolders = <<>>
    /\ selectedRoom = NoId
    /\ pendingCleanup = [c \in Cleanups |-> 0]
    /\ nEvents = 0
    /\ roomType = [i \in IDs |-> IF isSpaceRoom(i) THEN "multiple" ELSE "direct"]
    /\ membersId = [i \in IDs |-> {"me", "u1"}]
    /\ lookup = NoLookup
    /\ client = TRUE
    /\ connectionStatus = "CONNECTING"
    /\ syncListeners = {}
    /\ waits = [w \in WaitIds |-> NoWait]
    /\ listeners = IF client THEN AllListeners ELSE {}
    /\ cleared = FALSE
    /\ unread = [i \in IDs |-> FALSE]
    /\ hasUnreadMessages = FALSE
    /\ requests = [q \in RequestIds |-> NoRequest]
    /\ roomCreationInProgress = FALSE
    /\ NoVariables

\* RoomEvent.MyMembership: the membership of the local user in room i becomes m
RoomEventMembership(i, m) ==
    /\ Delivered("MyMembership")
    /\ \E p \in ParentsAtMembership(i) :
          /\ membership' = BackendWith(i, m, p).membership
          /\ parentOf' = BackendWith(i, m, p).parentOf
          /\ Apply(onRoomEventMembership(Cur, i, m, membership[i], BackendWith(i, m, p)))

\* ClientEvent.Room
ClientEventRoom(i) ==
    /\ Delivered("Room")
    /\ membership[i] # Unknown
    /\ Apply(onClientEventRoom(Cur, i, Backend))
    /\ UNCHANGED backendVars

\* ClientEvent.DeleteRoom: the client forgets room i
ClientEventDeleteRoom(i) ==
    /\ Delivered("DeleteRoom")
    /\ membership' = [membership EXCEPT ![i] = Unknown]
    /\ parentOf' = [parentOf EXCEPT ![i] = NoId]
    /\ Apply(onClientEventDeleteRoom(Cur, i))

\* RoomEvent.Name
RoomNameEvent(i) ==
    /\ Delivered("Name")
    /\ membership[i] # Unknown
    /\ Apply(onRoomNameEvent(Cur, i, Backend))
    /\ UNCHANGED backendVars

\* RoomState.events, m.space.child of space pid with state key c
RoomStateEventChild(pid, c) ==
    /\ Delivered("RoomState")
    /\ Apply(onRoomStateEvent(Cur, c, pid, Backend))
    /\ UNCHANGED backendVars

\* RoomState.events of another type (m.space.parent of room c): the handler returns at once
RoomStateEventOther(c, pid) ==
    /\ Delivered("RoomState")
    /\ membership[c] # Unknown
    /\ parentOf[c] # pid
    /\ parentOf' = [parentOf EXCEPT ![c] = pid]
    /\ UNCHANGED <<membership, roomList, roomFolders, selectedRoom, pendingCleanup, hasUnreadMessages>>

\* the then-callback without roomList.delete(roomID)
thenDeleteFromRoomList_noDelete(s, roomIDs) ==
    [s EXCEPT !.pendingCleanup = [@ EXCEPT ![roomIDs] = @ - 1]]

\* the then-callback of getRoomsIdInNode(): roomIDs.forEach(roomList.delete)
thenDeleteFromRoomList(s, roomIDs) ==
    [s EXCEPT !.roomList = SelectSeq(@, LAMBDA x : x \notin roomIDs),
              !.pendingCleanup = [@ EXCEPT ![roomIDs] = @ - 1]]

CleanupResolved(roomIDs) ==
    /\ pendingCleanup[roomIDs] > 0
    /\ Apply(thenDeleteFromRoomList(Cur, roomIDs))
    /\ UNCHANGED <<membership, parentOf, nEvents, roomVars, syncVars, opsVars, stateVars, listeners, cleared, unread>>

\* the catch-callback of getRoomsIdInNode(): the failure is logged
CleanupRejected(roomIDs) ==
    /\ pendingCleanup[roomIDs] > 0
    /\ pendingCleanup' = [pendingCleanup EXCEPT ![roomIDs] = @ - 1]
    /\ UNCHANGED <<membership, parentOf, roomList, roomFolders, selectedRoom, nEvents, roomVars, syncVars,
                   opsVars, stateVars, listeners, cleared, unread, hasUnreadMessages>>

\* the user opens a chat room of the tree (selectedRoom.set)
SelectRoom(i) ==
    /\ Holders(Cur, i) # {}
    /\ selectedRoom # i
    /\ selectedRoom' = i
    /\ UNCHANGED <<membership, parentOf, roomList, roomFolders, pendingCleanup, nEvents, roomVars, syncVars,
                   opsVars, stateVars, listeners, cleared, unread, hasUnreadMessages>>

Next ==
    \/ \E i \in IDs, m \in Memberships : RoomEventMembership(i, m)
    \/ \E i \in IDs : ClientEventRoom(i)
    \/ \E i \in IDs : ClientEventDeleteRoom(i)
    \/ \E i \in IDs : RoomNameEvent(i)
    \/ \E pc \in ChildLinks : RoomStateEventChild(pc[1], pc[2])
    \/ \E c \in IDs : \E pid \in ParentChoices(c) : RoomStateEventOther(c, pid)
    \/ \E roomIDs \in Cleanups : CleanupResolved(roomIDs)
    \/ \E roomIDs \in Cleanups : CleanupRejected(roomIDs)
    \/ \E i \in ChatRooms : SelectRoom(i)

Spec == Init /\ [][Next]_vars

-----------------------------------------------------------------------------
(* getDirectRoomFor *)

\* the kinds of chat room the lookup is tried on
RoomKinds ==
    {[type |-> "direct", members |-> {"me", "u1"}],
     [type |-> "direct", members |-> {"me", "u2"}],
     [type |-> "direct", members |-> {"me", "u1", "u2"}],
     [type |-> "multiple", members |-> {"me", "u1"}]}

IsDirectRoomWith(r, userID) ==
    /\ roomType[r] = "direct"
    /\ \E memberId \in membersId[r] : memberId = userID /\ Cardinality(membersId[r]) = 2

\* getDirectRoomFor without the membersId.length === 2 test
getDirectRoomFor_anyLength(rl, userID) ==
    LET directRooms == SelectSeq(rl, LAMBDA r : roomType[r] = "direct" /\ userID \in membersId[r])
    IN  IF Len(directRooms) > 0 THEN directRooms[1] ELSE NoId

getDirectRoomFor(rl, userID) ==
    LET directRooms == SelectSeq(rl, LAMBDA r : IsDirectRoomWith(r, userID))
    IN  IF Len(directRooms) > 0 THEN directRooms[1] ELSE NoId

InitLookup ==
    /\ membership = [i \in IDs |-> Unknown]
    /\ parentOf = [i \in IDs |-> NoId]
    /\ roomList = <<>>
    /\ roomFolders = <<>>
    /\ selectedRoom = NoId
    /\ pendingCleanup = [c \in Cleanups |-> 0]
    /\ nEvents = MaxEvents - LookupEvents
    /\ \E kind \in [ChatRooms -> RoomKinds] :
          /\ roomType = [i \in IDs |-> IF isSpaceRoom(i) THEN "multiple" ELSE kind[i].type]
          /\ membersId = [i \in IDs |-> IF isSpaceRoom(i) THEN {"me"} ELSE kind[i].members]
    /\ lookup = NoLookup
    /\ client = TRUE
    /\ connectionStatus = "CONNECTING"
    /\ syncListeners = {}
    /\ waits = [w \in WaitIds |-> NoWait]
    /\ listeners = IF client THEN AllListeners ELSE {}
    /\ cleared = FALSE
    /\ unread = [i \in IDs |-> FALSE]
    /\ hasUnreadMessages = FALSE
    /\ requests = [q \in RequestIds |-> NoRequest]
    /\ roomCreationInProgress = FALSE
    /\ NoVariables

DirectRoomLookup(userID) ==
    /\ lookup' = [userID |-> userID, room |-> getDirectRoomFor(roomList, userID)]
    /\ UNCHANGED <<membership, parentOf, roomList, roomFolders, selectedRoom, pendingCleanup,
                   nEvents, roomType, membersId, syncVars,
                   opsVars, stateVars, listeners, cleared, unread, hasUnreadMessages>>

NextLookup ==
    \/ \E i \in IDs, m \in {"join", "leave"} : RoomEventMembership(i, m)
    \/ \E i \in IDs : ClientEventRoom(i)
    \/ \E userID \in Users : DirectRoomLookup(userID)

SpecLookup == InitLookup /\ [][NextLookup]_vars

-----------------------------------------------------------------------------
(* waitForNextSync.  y is [client, connectionStatus, syncListeners, waits]. *)

Sync == [client |-> client, connectionStatus |-> connectionStatus,
         syncListeners |-> syncListeners, waits |-> waits]

ApplySync(y) ==
    /\ client' = y.client
    /\ connectionStatus' = y.connectionStatus
    /\ syncListeners' = y.syncListeners
    /\ waits' = y.waits

\* resolve() and reject() settle a promise once
Settle(promise, outcome) == IF promise = "pending" THEN outcome ELSE promise

\* the body of the promise of waitForNextSync
waitForNextSync(y, w) ==
    [y EXCEPT !.waits[w] = [promise |-> "pending", timer |-> TRUE, elapsed |-> 0, notified |-> FALSE],
              !.syncListeners = IF y.client THEN @ \cup {w} ELSE @]

\* the listener the wait w registered, called with a sync state
resolveIfIsASyncingEvent(y, w, state) ==
    LET seen == [y EXCEPT !.waits[w].notified = TRUE]
    IN  IF state # "SYNCING" THEN seen
        ELSE IF ~y.client
        THEN [seen EXCEPT !.waits[w].timer = FALSE,
                          !.waits[w].promise = Settle(@, "notInitialized")]
        ELSE [seen EXCEPT !.waits[w].timer = FALSE,
                          !.syncListeners = @ \ {w},
                          !.waits[w].promise = Settle(@, "resolved")]

\* the timer callback without client.off(ClientEvent.Sync, ...)
syncTimerCallback_noOff(y, w) ==
    IF ~y.client
    THEN [y EXCEPT !.waits[w].timer = FALSE,
                   !.waits[w].promise = Settle(@, "notInitialized")]
    ELSE [y EXCEPT !.waits[w].timer = FALSE,
                   !.waits[w].promise = Settle(@, "timeout")]

\* the callback of the timer of the wait w
syncTimerCallback(y, w) ==
    IF ~y.client
    THEN [y EXCEPT !.waits[w].timer = FALSE,
                   !.waits[w].promise = Settle(@, "notInitialized")]
    ELSE [y EXCEPT !.waits[w].timer = FALSE,
                   !.syncListeners = @ \ {w},
                   !.waits[w].promise = Settle(@, "timeout")]

\* the listener of startMatrixClient
onClientEventSync(y, state) ==
    IF ~y.client THEN y
    ELSE [y EXCEPT !.connectionStatus =
            CASE state = "PREPARED" -> "ONLINE"
              [] state = "ERROR" -> "ON_ERROR"
              [] state = "RECONNECTING" -> "CONNECTING"
              [] state = "STOPPED" -> "OFFLINE"
              [] OTHER -> @]

\* client.emit(ClientEvent.Sync, state) calls the listeners of the waits in L
RECURSIVE EmitSync(_, _, _)
EmitSync(y, L, state) ==
    IF L = {} THEN y
    ELSE LET w == CHOOSE x \in L : TRUE
         IN  EmitSync(resolveIfIsASyncingEvent(y, w, state), L \ {w}, state)

InitSync ==
    /\ membership = [i \in IDs |-> Unknown]
    /\ parentOf = [i \in IDs |-> NoId]
    /\ roomList = <<>>
    /\ roomFolders = <<>>
    /\ selectedRoom = NoId
    /\ pendingCleanup = [c \in Cleanups |-> 0]
    /\ nEvents = 0
    /\ roomType = [i \in IDs |-> IF isSpaceRoom(i) THEN "multiple" ELSE "direct"]
    /\ membersId = [i \in IDs |-> {"me", "u1"}]
    /\ lookup = NoLookup
    /\ client = FALSE
    /\ connectionStatus = "CONNECTING"
    /\ syncListeners = {}
    /\ waits = [w \in WaitIds |-> NoWait]
    /\ listeners = IF client THEN AllListeners ELSE {}
    /\ cleared = FALSE
    /\ unread = [i \in IDs |-> FALSE]
    /\ hasUnreadMessages = FALSE
    /\ requests = [q \in RequestIds |-> NoRequest]
    /\ roomCreationInProgress = FALSE
    /\ NoVariables

treeSide == <<membership, parentOf, roomList, roomFolders, selectedRoom, pendingCleanup,
              nEvents, roomType, membersId, lookup,
              opsVars, stateVars, cleared, unread, hasUnreadMessages>>

\* this.client = await clientPromise
ClientInitialized ==
    /\ ~client
    /\ client' = TRUE
    /\ listeners' = AllListeners
    /\ UNCHANGED <<connectionStatus, syncListeners, waits, treeSide>>

\* an operation calls waitForNextSync
StartWait(w) ==
    /\ waits[w].promise = "none"
    /\ ApplySync(waitForNextSync(Sync, w))
    /\ UNCHANGED <<listeners, treeSide>>

\* the client emits ClientEvent.Sync
SyncNotification(state) ==
    /\ client
    /\ ApplySync(EmitSync(IF "Sync" \in listeners THEN onClientEventSync(Sync, state) ELSE Sync,
                          syncListeners, state))
    /\ UNCHANGED <<listeners, treeSide>>

\* one second passes; a timer that is due fires first
Tick ==
    /\ \E w \in WaitIds : waits[w].timer
    /\ \A w \in WaitIds : waits[w].timer => waits[w].elapsed < SyncTimeout
    /\ waits' = [w \in WaitIds |->
                    IF waits[w].timer THEN [waits[w] EXCEPT !.elapsed = @ + 1] ELSE waits[w]]
    /\ UNCHANGED <<client, connectionStatus, syncListeners, listeners, treeSide>>

\* the timer of the wait w expires
SyncTimerFired(w) ==
    /\ waits[w].timer
    /\ waits[w].elapsed = SyncTimeout
    /\ ApplySync(syncTimerCallback(Sync, w))
    /\ UNCHANGED <<listeners, treeSide>>

NextSync ==
    \/ ClientInitialized
    \/ \E w \in WaitIds : StartWait(w)
    \/ \E state \in SyncStates : SyncNotification(state)
    \/ Tick
    \/ \E w \in WaitIds : SyncTimerFired(w)

SpecSync == InitSync /\ [][NextSync]_vars

-----------------------------------------------------------------------------
(* The derived stores of the constructor *)

\* room.myMembership of the MatrixChatRoom of id r
myMembership(r) == membership[r]

directRooms(rl) == SelectSeq(rl, LAMBDA r : myMembership(r) = "join" /\ roomType[r] = "direct")

invitations(rl) == SelectSeq(rl, LAMBDA r : myMembership(r) = "invite")

rooms(rl) == SelectSeq(rl, LAMBDA r : myMembership(r) = "join" /\ roomType[r] = "multiple")

\* the subscription to room.hasUnreadMessages of the room i calls back: only the
\* rooms of the root list are subscribed to
onUnreadChanged(rl, flags, prev, i) ==
    IF MapHas(rl, i) THEN refreshUnread(rl, flags, prev) ELSE prev

InitViews ==
    /\ membership = [i \in IDs |-> Unknown]
    /\ parentOf = [i \in IDs |-> NoId]
    /\ roomList = <<>>
    /\ roomFolders = <<>>
    /\ selectedRoom = NoId
    /\ pendingCleanup = [c \in Cleanups |-> 0]
    /\ nEvents = MaxEvents - ViewEvents
    /\ \E kind \in [ChatRooms -> RoomTypes] :
          roomType = [i \in IDs |-> IF isSpaceRoom(i) THEN "multiple" ELSE kind[i]]
    /\ membersId = [i \in IDs |-> {"me", "u1"}]
    /\ lookup = NoLookup
    /\ client = TRUE
    /\ connectionStatus = "CONNECTING"
    /\ syncListeners = {}
    /\ waits = [w \in WaitIds |-> NoWait]
    /\ listeners = AllListeners
    /\ cleared = FALSE
    /\ unread = [i \in IDs |-> FALSE]
    /\ hasUnreadMessages = FALSE
    /\ requests = [q \in RequestIds |-> NoRequest]
    /\ roomCreationInProgress = FALSE
    /\ NoVariables

\* the unread flag of the room i changes (a message arrives or is read)
UnreadChanged(i) ==
    /\ membership[i] # Unknown
    /\ unread' = [unread EXCEPT ![i] = ~@]
    /\ hasUnreadMessages' = onUnreadChanged(roomList, unread', hasUnreadMessages, i)
    /\ UNCHANGED <<membership, parentOf, roomList, roomFolders, selectedRoom, pendingCleanup,
                   nEvents, roomVars, syncVars, opsVars, stateVars, listeners, cleared>>

NextViews ==
    \/ Next
    \/ \E i \in ChatRooms : UnreadChanged(i)

SpecViews == InitViews /\ [][NextViews]_vars

-----------------------------------------------------------------------------
(* clearListener *)

\* the listeners clearListener takes off the client
HandlerKinds == {"Room", "DeleteRoom", "MyMembership", "RoomState", "Name"}

\* this.client?.off(...) five times
clearListener(registered, clientDefined) ==
    IF clientDefined THEN registered \ HandlerKinds ELSE registered

\* what a Sync event with this state makes of the connection
deliverSync(y, state) ==
    IF y.client /\ "Sync" \in listeners THEN onClientEventSync(y, state) ELSE y

\* what an event of this kind makes of the tree, post being its handler's result
deliverTree(kind, post) ==
    IF client /\ kind \in listeners THEN post ELSE Cur

InitTeardown ==
    /\ membership = [i \in IDs |-> Unknown]
    /\ parentOf = [i \in IDs |-> NoId]
    /\ roomList = <<>>
    /\ roomFolders = <<>>
    /\ selectedRoom = NoId
    /\ pendingCleanup = [c \in Cleanups |-> 0]
    /\ nEvents = MaxEvents - TeardownEvents
    /\ roomType = [i \in IDs |-> IF isSpaceRoom(i) THEN "multiple" ELSE "direct"]
    /\ membersId = [i \in IDs |-> {"me", "u1"}]
    /\ lookup = NoLookup
    /\ client = FALSE
    /\ connectionStatus = "CONNECTING"
    /\ syncListeners = {}
    /\ waits = [w \in WaitIds |-> NoWait]
    /\ listeners = {}
    /\ cleared = FALSE
    /\ unread = [i \in IDs |-> FALSE]
    /\ hasUnreadMessages = FALSE
    /\ requests = [q \in RequestIds |-> NoRequest]
    /\ roomCreationInProgress = FALSE
    /\ NoVariables

ClearListener ==
    /\ ~cleared
    /\ cleared' = TRUE
    /\ listeners' = clearListener(listeners, client)
    /\ UNCHANGED <<membership, parentOf, roomList, roomFolders, selectedRoom, pendingCleanup,
                   nEvents, roomVars, syncVars, opsVars, stateVars, unread, hasUnreadMessages>>

NextTeardown ==
    \/ Next
    \/ ClientInitialized
    \/ \E state \in SyncStates : SyncNotification(state)
    \/ ClearListener

SpecTeardown == InitTeardown /\ [][NextTeardown]_vars

-----------------------------------------------------------------------------
(* The request operations.  o is [s, inProgress, req]: the tree, the            *)
(* roomCreationInProgress store and the record of one call:                     *)
(* [op, arg, stage, listening, roomId, outcome, value], where stage is what the *)
(* call awaits, listening whether its wait registered a Sync listener, roomId   *)
(* the room the backend created, outcome the state of the returned promise and  *)
(* value what it resolved to or was rejected with.                              *)

Operations == {"createRoom", "createFolder", "createDirectRoom", "joinRoom",
               "searchAccessibleRooms", "searchChatUsers"}

\* the arguments an operation is called with
Arguments(op) ==
    CASE op = "createFolder" -> {NoId, "F1"}        \* roomOptions.parentSpaceID
      [] op = "createDirectRoom" -> {"u1"}          \* userToInvite
      [] op = "joinRoom" -> ChatRooms               \* roomId
      [] OTHER -> {NoId}

\* the ids the backend may give a created room
NewIds(op) == IF op = "createFolder" THEN Spaces ELSE ChatRooms

Resolve(o, v) == [o EXCEPT !.req.stage = "done", !.req.outcome = "resolved", !.req.value = v]

Reject(o, e) == [o EXCEPT !.req.stage = "done", !.req.outcome = "rejected", !.req.value = e]

Await(o, stage) == [o EXCEPT !.req.stage = stage]

\* await this.waitForNextSync(): the listener is registered when this.client is defined
AwaitSync(o, stage, clientDefined) ==
    [o EXCEPT !.req.stage = stage, !.req.listening = clientDefined]

\* the call of an operation, up to its first await or its return
invoke(o, op, arg, clientDefined) ==
    LET called == [o EXCEPT !.req = [NoRequest EXCEPT !.op = op, !.arg = arg]]
    IN  CASE op = "createRoom" ->
               IF ~clientDefined THEN Reject(called, "notInitialized")
               ELSE Await([called EXCEPT !.inProgress = TRUE], "createRoom")
          [] op = "createFolder" ->
               IF clientDefined THEN Await(called, "createRoom")
               ELSE AwaitSync(called, "wait", clientDefined)
          [] op = "createDirectRoom" ->
               IF ~clientDefined THEN Reject(called, "notInitialized")
               ELSE IF getDirectRoomFor(o.s.roomList, arg) # NoId
               THEN Resolve(called, getDirectRoomFor(o.s.roomList, arg))
               ELSE Await([called EXCEPT !.inProgress = TRUE], "createRoom")
          [] op = "joinRoom" ->
               IF ~clientDefined THEN Reject(called, "notInitialized")
               ELSE Await([called EXCEPT !.req.roomId = arg], "joinRoom")
          [] op = "searchAccessibleRooms" ->
               IF ~clientDefined THEN Reject(called, "notInitialized")
               ELSE Await(called, "search")
          [] op = "searchChatUsers" ->
               \* the error thrown is caught and logged, the function returns undefined
               IF ~clientDefined THEN Resolve(called, "undefined")
               ELSE Await(called, "search")

\* the backend answers the request the call awaits: ok or an error; newId is the
\* room_id of a created room
backendReplied(o, ok, newId, clientDefined) ==
    LET op == o.req.op
        stage == o.req.stage
    IN  CASE op = "createRoom" ->
               IF ok THEN Resolve([o EXCEPT !.inProgress = FALSE], newId)
               ELSE Reject([o EXCEPT !.inProgress = FALSE], "backend")
          [] op = "createFolder" /\ stage = "createRoom" ->
               IF ok THEN AwaitSync([o EXCEPT !.req.roomId = newId], "wait", clientDefined)
               ELSE Reject(o, "backend")
          [] op = "createFolder" /\ stage = "addRoomToSpace" ->
               IF ok THEN AwaitSync(o, "wait2", clientDefined)
               ELSE Reject([o EXCEPT !.s.roomFolders = FolderDelete(@, o.req.roomId)],
                           "addRoomToFolder")
          [] op = "createDirectRoom" ->
               \* client.createRoom, then addDMRoomInAccountData
               IF ok THEN AwaitSync([o EXCEPT !.req.roomId = newId], "wait", clientDefined)
               ELSE Reject([o EXCEPT !.inProgress = FALSE], "backend")
          [] op = "joinRoom" ->
               IF ok THEN AwaitSync(o, "wait", clientDefined) ELSE Reject(o, "backend")
          [] op = "searchAccessibleRooms" ->
               IF ok THEN Resolve(o, "list") ELSE Reject(o, "backend")
          [] op = "searchChatUsers" ->
               IF ok THEN Resolve(o, "list") ELSE Resolve(o, "undefined")

\* how a wait can end: it resolves only through its listener, it times out when the
\* client is defined at expiry and fails with the other message when it is not
WaitResults(req, clientDefined) ==
    (IF req.listening /\ clientDefined THEN {"resolved"} ELSE {})
    \cup (IF clientDefined THEN {"timeout"} ELSE {"notInitialized"})

\* the wait of the call ends with result; b is the backend (client.getRoom)
waitSettled(o, result, b) ==
    LET op == o.req.op
        stage == o.req.stage
        roomId == o.req.roomId
        known == roomId # NoId /\ b.membership[roomId] # Unknown
    IN  CASE op = "createFolder" /\ stage = "wait" ->
               IF result # "resolved" THEN Reject(o, result)
               ELSE IF o.req.arg # NoId /\ roomId # NoId THEN Await(o, "addRoomToSpace")
               ELSE IF roomId = NoId THEN Reject(o, "addRoomToFolder")
               ELSE Resolve(o, roomId)
          [] op = "createFolder" /\ stage = "wait2" ->
               IF result = "resolved" THEN Resolve(o, roomId)
               ELSE Reject([o EXCEPT !.s.roomFolders = FolderDelete(@, roomId)],
                           "addRoomToFolder")
          [] op = "createDirectRoom" ->
               IF result # "resolved" THEN Reject([o EXCEPT !.inProgress = FALSE], result)
               ELSE IF ~known THEN Resolve([o EXCEPT !.inProgress = FALSE], "undefined")
               ELSE Resolve([o EXCEPT !.inProgress = FALSE,
                                      !.s = createAndAddNewRootRoom(@, roomId)], roomId)
          [] op = "joinRoom" ->
               IF result # "resolved" THEN Reject(o, result)
               ELSE IF ~known THEN Reject(o, "notPresent")
               ELSE Resolve([o EXCEPT !.s = createAndAddNewRootRoom(@, roomId)], roomId)

\* the call q as the operations see it
Call(q) == [s |-> Cur, inProgress |-> roomCreationInProgress, req |-> requests[q]]

ApplyCall(q, o) ==
    /\ Apply(o.s)
    /\ roomCreationInProgress' = o.inProgress
    /\ requests' = [requests EXCEPT ![q] = o.req]

InitOps ==
    /\ membership = [i \in IDs |-> Unknown]
    /\ parentOf = [i \in IDs |-> NoId]
    /\ roomList = <<>>
    /\ roomFolders = <<>>
    /\ selectedRoom = NoId
    /\ pendingCleanup = [c \in Cleanups |-> 0]
    /\ nEvents = MaxEvents - OpsEvents
    /\ roomType = [i \in IDs |-> IF isSpaceRoom(i) THEN "multiple" ELSE "direct"]
    /\ membersId = [i \in IDs |-> {"me", "u1"}]
    /\ lookup = NoLookup
    /\ client = FALSE
    /\ connectionStatus = "CONNECTING"
    /\ syncListeners = {}
    /\ waits = [w \in WaitIds |-> NoWait]
    /\ listeners = {}
    /\ cleared = FALSE
    /\ unread = [i \in IDs |-> FALSE]
    /\ hasUnreadMessages = FALSE
    /\ requests = [q \in RequestIds |-> NoRequest]
    /\ roomCreationInProgress = FALSE
    /\ NoVariables

callFrame == <<membership, parentOf, nEvents, roomVars, syncVars, listeners, cleared, unread, stateVars>>

\* the caller calls an operation
Invoke(q, op, arg) ==
    /\ requests[q].stage = "idle"
    /\ \A earlier \in RequestIds : earlier < q => requests[earlier].stage # "idle"
    /\ ApplyCall(q, invoke(Call(q), op, arg, client))
    /\ UNCHANGED callFrame

\* the backend answers the request the call q awaits
BackendReplies(q, ok, newId) ==
    /\ requests[q].stage \in {"createRoom", "joinRoom", "search", "addRoomToSpace"}
    /\ IF ok /\ requests[q].stage = "createRoom"
       THEN newId \in NewIds(requests[q].op) /\ membership[newId] = Unknown
       ELSE newId = NoId
    /\ ApplyCall(q, backendReplied(Call(q), ok, newId, client))
    /\ UNCHANGED callFrame

\* the wait for the next sync of the call q ends
WaitSettles(q, result) ==
    /\ requests[q].stage \in {"wait", "wait2"}
    /\ result \in WaitResults(requests[q], client)
    /\ ApplyCall(q, waitSettled(Call(q), result, Backend))
    /\ UNCHANGED callFrame

NextOps ==
    \/ ClientInitialized
    \/ \E q \in RequestIds, op \in Operations : \E arg \in Arguments(op) : Invoke(q, op, arg)
    \/ \E q \in RequestIds, ok \in BOOLEAN, newId \in IDs \cup {NoId} : BackendReplies(q, ok, newId)
    \/ \E q \in RequestIds, result \in {"resolved", "timeout", "notInitialized"} :
          WaitSettles(q, result)
    \/ \E i \in IDs : RoomEventMembership(i, "join")
    \/ \E i \in IDs : ClientEventRoom(i)

SpecOps == InitOps /\ [][NextOps]_vars

\* how many remote events are delivered while calls of joinRoom are suspended
JoinEvents == 4

\* the connection is started, no call of joinRoom was made yet
InitJoin ==
    /\ membership = [i \in IDs |-> Unknown]
    /\ parentOf = [i \in IDs |-> NoId]
    /\ roomList = <<>>
    /\ roomFolders = <<>>
    /\ selectedRoom = NoId
    /\ pendingCleanup = [c \in Cleanups |-> 0]
    /\ nEvents = MaxEvents - JoinEvents
    /\ roomType = [i \in IDs |-> IF isSpaceRoom(i) THEN "multiple" ELSE "direct"]
    /\ membersId = [i \in IDs |-> {"me", "u1"}]
    /\ lookup = NoLookup
    /\ client = TRUE
    /\ connectionStatus = "CONNECTING"
    /\ syncListeners = {}
    /\ waits = [w \in WaitIds |-> NoWait]
    /\ listeners = AllListeners
    /\ cleared = FALSE
    /\ unread = [i \in IDs |-> FALSE]
    /\ hasUnreadMessages = FALSE
    /\ requests = [q \in RequestIds |-> NoRequest]
    /\ roomCreationInProgress = FALSE
    /\ NoVariables

\* calls of joinRoom among the remote events that place rooms in the tree
NextJoin ==
    \/ \E q \in RequestIds, roomId \in ChatRooms : Invoke(q, "joinRoom", roomId)
    \/ \E q \in RequestIds, ok \in BOOLEAN : BackendReplies(q, ok, NoId)
    \/ \E q \in RequestIds, result \in {"resolved", "timeout"} : WaitSettles(q, result)
    \/ \E i \in IDs : RoomEventMembership(i, "join")
    \/ \E i \in IDs : ClientEventRoom(i)

SpecJoin == InitJoin /\ [][NextJoin]_vars

-----------------------------------------------------------------------------
(* WorkadventureStateCommands: the variables of the iframe state *)

\* the calls of saveVariable that send a query in one run
MaxSaves == 3

\* typeof value
typeOf(v) ==
    CASE v = "undefined" -> "undefined"
      [] v \in {"null", "o1"} -> "object"
      [] v \in {"NaN", "1"} -> "number"
      [] OTHER -> "string"

\* a === b: NaN is identical to nothing, an object to itself only
strictEquals(a, b) == a = b /\ a # "NaN"

\* this.variables.get(key): undefined where the map has no entry
variablesGet(m, key) == IF m[key] = Absent THEN "undefined" ELSE m[key]

StateCommands ==
    [variables |-> variables, variableSubscribers |-> variableSubscribers,
     emitted |-> emitted, queries |-> queries, returned |-> saveReturned]

\* saveVariable without the test of the type of the value
saveVariable_noTypeTest(w, key, value) ==
    IF strictEquals(variablesGet(w.variables, key), value)
    THEN [w EXCEPT !.returned = "resolved"]
    ELSE [w EXCEPT !.variables = [@ EXCEPT ![key] = value],
                   !.emitted = IF key \in w.variableSubscribers
                               THEN Append(@, [key |-> key, value |-> value]) ELSE @,
                   !.queries = Append(@, [type |-> "setVariable", key |-> key, value |-> value]),
                   !.returned = "query"]

\* saveVariable(key, value)
saveVariable(w, key, value) ==
    IF strictEquals(variablesGet(w.variables, key), value) /\ typeOf(value) # "object"
    THEN [w EXCEPT !.returned = "resolved"]
    ELSE [w EXCEPT !.variables = [@ EXCEPT ![key] = value],
                   !.emitted = IF key \in w.variableSubscribers
                               THEN Append(@, [key |-> key, value |-> value]) ELSE @,
                   !.queries = Append(@, [type |-> "setVariable", key |-> key, value |-> value]),
                   !.returned = "query"]

ApplyState(w) ==
    /\ variables' = w.variables
    /\ variableSubscribers' = w.variableSubscribers
    /\ emitted' = w.emitted
    /\ queries' = w.queries
    /\ saveReturned' = w.returned

connectionVars == <<membership, parentOf, roomList, roomFolders, selectedRoom, pendingCleanup,
                    nEvents, roomVars, syncVars, opsVars, listeners, cleared, unread,
                    hasUnreadMessages>>

\* the Subjects of variableSubscribers that exist when the script starts to save
InitState ==
    /\ membership = [i \in IDs |-> Unknown]
    /\ parentOf = [i \in IDs |-> NoId]
    /\ roomList = <<>>
    /\ roomFolders = <<>>
    /\ selectedRoom = NoId
    /\ pendingCleanup = [c \in Cleanups |-> 0]
    /\ nEvents = MaxEvents
    /\ roomType = [i \in IDs |-> IF isSpaceRoom(i) THEN "multiple" ELSE "direct"]
    /\ membersId = [i \in IDs |-> {"me", "u1"}]
    /\ lookup = NoLookup
    /\ client = FALSE
    /\ connectionStatus = "CONNECTING"
    /\ syncListeners = {}
    /\ waits = [w \in WaitIds |-> NoWait]
    /\ listeners = {}
    /\ cleared = FALSE
    /\ unread = [i \in IDs |-> FALSE]
    /\ hasUnreadMessages = FALSE
    /\ requests = [q \in RequestIds |-> NoRequest]
    /\ roomCreationInProgress = FALSE
    /\ variables = [k \in Keys |-> Absent]
    /\ variableSubscribers \in SUBSET Keys
    /\ emitted = <<>>
    /\ queries = <<>>
    /\ saveReturned = "none"

\* the script calls WA.state.saveVariable(key, value)
SaveVariable(key, value) ==
    /\ Len(queries) < MaxSaves
    /\ ApplyState(saveVariable(StateCommands, key, value))
    /\ UNCHANGED connectionVars

\* the script assigns WA.state[key] = value: the set trap of the Proxy
ProxySet(key, value) ==
    /\ Len(queries) < MaxSaves
    /\ ApplyState(saveVariable(StateCommands, key, value))
    /\ UNCHANGED connectionVars

NextState ==
    \/ \E key \in Keys, value \in JsValues : SaveVariable(key, value)
    \/ \E key \in Keys, value \in JsValues : ProxySet(key, value)

SpecState == InitState /\ [][NextState]_vars

-----
(* Properties *)

AllUnique(s) == \A i \in IDs : Cardinality(Holders(s, i)) <= 1

NoPending(s) == \A c \in Cleanups : s.pendingCleanup[c] = 0

\* C1: after each event is fully processed no id is held by more than one container
C1_Uniqueness == NoPending(Cur) => AllUnique(Cur)

\* folder F is a child folder of a root folder (root folder -> F)
NestedTwoDeep(s, F) == \E path \in Holders(s, F) : Len(path) = 2 /\ path[2] = "folders"

\* the containers that are the rooms map of a folder F
IsRoomsOf(path, F) == Len(path) >= 2 /\ path[Len(path)] = "rooms" /\ path[Len(path) - 1] = F

MoveCase(R, F) ==
    /\ Holders(Cur, R) = {<<"roomList">>}
    /\ NestedTwoDeep(Cur, F)
    /\ membership[R] # Unknown
    /\ membership[F] # Unknown

C3_Idempotence ==
    \A i \in IDs :
        membership[i] # Unknown =>
            LET first == onClientEventRoom(Cur, i, Backend)
            IN  onClientEventRoom(first, i, Backend) = first

C3_Witness ==
    \E i \in IDs :
        /\ membership[i] # Unknown
        /\ onClientEventRoom(Cur, i, Backend) # Cur
        /\ Holders(onClientEventRoom(Cur, i, Backend), i) # {}
        /\ onClientEventRoom(onClientEventRoom(Cur, i, Backend), i, Backend)
              = onClientEventRoom(Cur, i, Backend)

\* the tree after a membership event to m for the known room i
AfterMembership(i, m) ==
    onRoomEventMembership(Cur, i, m, membership[i], BackendWith(i, m, parentOf[i]))

\* C4: after a room-deleted event for X, or a membership event to leave or ban,
\* no container holds X
C4_DeletedEverywhere ==
    \A X \in IDs :
        /\ Holders(onClientEventDeleteRoom(Cur, X), X) = {}
        /\ \A m \in {"leave", "ban"} :
              membership[X] # Unknown => Holders(AfterMembership(X, m), X) = {}

\* the folder pid is a root folder or a child folder somewhere in the tree
FolderPresent(s, pid) ==
    \E path \in Holders(s, pid) : path[Len(path)] \in {"roomFolders", "folders"}

\* the node i is a child of a folder pid
ChildOf(s, i, pid) ==
    \E path \in Holders(s, i) : Len(path) >= 2 /\ path[Len(path) - 1] = pid

\* C5: a node of the tree invited and then joined is placed under its first declared
\* parent folder when that folder is in the tree, and is then not a root room
C5_InviteToJoinPlacement ==
    \A i \in IDs :
        (/\ membership[i] = "invite"
         /\ Holders(Cur, i) # {}
         /\ parentOf[i] # NoId
         /\ FolderPresent(Cur, parentOf[i]))
        => LET post == AfterMembership(i, "join")
           IN  ChildOf(post, i, parentOf[i]) /\ ~MapHas(post.roomList, i)

\* the rooms map of a folder nested two levels deep holds R: root folder -> folder -> R
NestedRoom(s, R) ==
    \E path \in Holders(s, R) : Len(path) = 3 /\ path[3] = "rooms"

OrphansOf(F) == getRoomsIdInNode(NewFolder(F, Backend)) \cap Range(roomList)

\* the Room event for F registers F as a new root folder
RegistersRootFolder(F) ==
    /\ membership[F] # Unknown
    /\ ~FolderHas(roomFolders, F)
    /\ FolderHas(onClientEventRoom(Cur, F, Backend).roomFolders, F)

TimedOut(w) ==
    /\ waits[w].promise = "pending"
    /\ waits[w].timer
    /\ waits[w].elapsed = SyncTimeout
    /\ ~waits[w].notified

\* a wait that saw no notification is pending with its timer armed and not overdue
NoHang(w) ==
    (waits[w].promise = "pending" /\ ~waits[w].notified)
    => (waits[w].timer /\ waits[w].elapsed <= SyncTimeout)

DirectWith(r, userID) ==
    roomType[r] = "direct" /\ userID \in membersId[r] /\ Cardinality(membersId[r]) = 2

\* the chat rooms of the tree, root or nested, that are direct rooms with userID
DirectInTree(userID) == {r \in ChatRooms : Holders(Cur, r) # {} /\ DirectWith(r, userID)}

\* the ranks in the root room list of the direct rooms with userID
DirectRanks(userID) == {k \in 1..Len(roomList) : DirectWith(roomList[k], userID)}

\* C9 as stated: getDirectRoomFor(u) returns the unique direct two-member room with u
\* of the tree, and nothing exactly when the tree holds none
C9_UniqueDirectRoomOfTree ==
    \A userID \in Users :
        LET r == getDirectRoomFor(roomList, userID)
        IN  /\ r = NoId <=> DirectInTree(userID) = {}
            /\ r # NoId => DirectInTree(userID) = {r}

\* C9: getDirectRoomFor(u) returns the first room of the root room list, in insertion
\* order, that is a direct room of exactly two members with u among them, and
\* nothing exactly when the root room list holds none; rooms held by folders are
\* not searched and other matches may follow the returned one
C9_FirstDirectRoomOfRootList ==
    \A userID \in Users :
        LET r == getDirectRoomFor(roomList, userID)
        IN  /\ r = NoId <=> DirectRanks(userID) = {}
            /\ r # NoId => r = roomList[FirstOf(DirectRanks(userID))]
            /\ r # NoId => (MapHas(roomList, r) /\ DirectWith(r, userID))

C9_Witness ==
    /\ lookup.room # NoId
    /\ lookup.room = getDirectRoomFor(roomList, lookup.userID)
    /\ Cardinality(DirectRanks(lookup.userID)) = 2
    /\ lookup.room = roomList[1]

\* the ids a handler put into a container that did not hold them
Inserted(post) == {j \in IDs : ~(Holders(post, j) \subseteq Holders(Cur, j))}

\* C10: no event handler puts a node whose membership is leave or ban into a container
C10_NoAdmissionOnLeaveOrBan ==
    /\ \A i \in IDs :
          membership[i] # Unknown =>
              /\ \A j \in Inserted(onClientEventRoom(Cur, i, Backend)) :
                    isUserMemberOrInvited(membership[j])
              /\ \A j \in Inserted(onRoomNameEvent(Cur, i, Backend)) :
                    isUserMemberOrInvited(membership[j])
    /\ \A i \in IDs, m \in Memberships : \A p \in ParentsAtMembership(i) :
          \A j \in Inserted(onRoomEventMembership(Cur, i, m, membership[i], BackendWith(i, m, p))) :
              isUserMemberOrInvited(BackendWith(i, m, p).membership[j])
    /\ \A pc \in ChildLinks :
          \A j \in Inserted(onRoomStateEvent(Cur, pc[2], pc[1], Backend)) :
              isUserMemberOrInvited(membership[j])

\* the node i is not in the tree, is admitted and declares a parent folder that is in the tree
AppearsUnderKnownParent(i) ==
    /\ isUserMemberOrInvited(membership[i])
    /\ Holders(Cur, i) = {}
    /\ parentOf[i] # NoId
    /\ FolderPresent(Cur, parentOf[i])

\* C16: a newly appeared, admitted node whose first parent folder is in the tree is
\* attached under that folder, a room in its rooms map and a folder in its folders
\* map, and findRoomOrFolder then finds it
C16_AttachUnderParent ==
    \A i \in IDs :
        AppearsUnderKnownParent(i) =>
            LET post == onClientEventRoom(Cur, i, Backend)
            IN  /\ findRoomOrFolder(post, i)
                /\ \E path \in Holders(post, i) :
                      /\ Len(path) >= 2
                      /\ path[Len(path) - 1] = parentOf[i]
                      /\ path[Len(path)] = (IF isSpaceRoom(i) THEN "folders" ELSE "rooms")

\* C17: when an event handler returns, every removal it causes has taken effect:
\* no removal from the root room list is left pending, the one of a new root
\* folder's descendant room ids included
C17_SynchronousMutation ==
    /\ \A c \in Cleanups : pendingCleanup[c] = 0
    /\ \A F \in Spaces :
          membership[F] # Unknown =>
              onClientEventRoom(Cur, F, Backend).pendingCleanup = pendingCleanup

\* C18: a membership event to invite for an id that is nowhere in the tree puts the
\* id in the root room list, whatever parent it declares
C18_InviteCreatesRootRoom ==
    \A i \in IDs : \A p \in ParentsAtMembership(i) :
        (Holders(Cur, i) = {} /\ membership[i] # "invite")
        => MapHas(onRoomEventMembership(Cur, i, "invite", membership[i],
                                        BackendWith(i, "invite", p)).roomList, i)

\* C19: a membership event whose membership equals the previous one changes neither
\* the root room list, the root folders, a folder's children nor the selected room
C19_UnchangedMembershipNoOp ==
    \A i \in IDs :
        membership[i] # Unknown =>
            onRoomEventMembership(Cur, i, membership[i], membership[i], Backend) = Cur

\* C20: an m.space.child event for a room of the tree leaves the room in the tree in
\* exactly one place: under the named parent folder when that folder is in the
\* tree, and in the root room list when it is not
C20_ParentLinkKeepsRoom ==
    \A pc \in ChildLinks :
        LET pid == pc[1]
            c == pc[2]
        IN  (c \in ChatRooms /\ membership[c] # Unknown /\ Holders(Cur, c) # {})
            => LET post == onRoomStateEvent(Cur, c, pid, Backend)
               IN  /\ Cardinality(Holders(post, c)) = 1
                   /\ FolderPresent(Cur, pid) => ChildOf(post, c, pid)
                   /\ ~FolderPresent(Cur, pid) => MapHas(post.roomList, c)

\* the root-level nodes: the rooms of the root room list and the root folders
RootNodes == Range(roomList) \cup {roomFolders[k].id : k \in 1..Len(roomFolders)}

\* C14: invitations is the set of root-level nodes, rooms and folders alike, whose
\* membership is invite; directRooms is the root rooms of kind direct and
\* membership join, rooms the root rooms of kind multiple and membership join
C14_Projections ==
    /\ Range(invitations(roomList)) = {i \in RootNodes : membership[i] = "invite"}
    /\ Range(directRooms(roomList))
          = {i \in Range(roomList) : roomType[i] = "direct" /\ membership[i] = "join"}
    /\ Range(rooms(roomList))
          = {i \in Range(roomList) : roomType[i] = "multiple" /\ membership[i] = "join"}

\* C15: hasUnreadMessages is the OR of the unread flags of the nodes of the tree, and
\* is false when the tree holds no node with an unread flag set
C15_UnreadAggregate ==
    hasUnreadMessages = (\E i \in IDs : Holders(Cur, i) # {} /\ unread[i])

\* C13: once clearListener has returned, no remote event of any kind changes the tree
\* or connectionStatus
C13_TeardownDetachesAll ==
    cleared =>
        /\ \A state \in SyncStates :
              deliverSync(Sync, state).connectionStatus = connectionStatus
        /\ \A i \in IDs :
              /\ membership[i] # Unknown =>
                    /\ deliverTree("Room", onClientEventRoom(Cur, i, Backend)) = Cur
                    /\ deliverTree("Name", onRoomNameEvent(Cur, i, Backend)) = Cur
              /\ deliverTree("DeleteRoom", onClientEventDeleteRoom(Cur, i)) = Cur
              /\ \A m \in Memberships : \A p \in ParentsAtMembership(i) :
                    deliverTree("MyMembership",
                                onRoomEventMembership(Cur, i, m, membership[i],
                                                      BackendWith(i, m, p))) = Cur
        /\ \A pc \in ChildLinks :
              deliverTree("RoomState", onRoomStateEvent(Cur, pc[2], pc[1], Backend)) = Cur

\* a call that has not started, as the operations see it
FreshCall == [s |-> Cur, inProgress |-> roomCreationInProgress, req |-> NoRequest]

\* C11: every request operation called while the client is not initialised is
\* rejected at entry with the client-not-initialised error
C11_RejectedBeforeClientReady ==
    ~client =>
        \A op \in Operations : \A arg \in Arguments(op) :
            LET post == invoke(FreshCall, op, arg, client)
            IN  /\ post.req.outcome = "rejected"
                /\ post.req.value = "notInitialized"

\* the call q waits for the sync after which its room should be known, and the
\* client does not hold that room
RoomMissingAfterSync(q) ==
    /\ requests[q].op \in {"joinRoom", "createDirectRoom"}
    /\ requests[q].stage = "wait"
    /\ "resolved" \in WaitResults(requests[q], client)
    /\ membership[requests[q].roomId] = Unknown

\* C12: joinRoom and createDirectRoom, finding after their sync wait that the client
\* does not hold the room, are rejected and add nothing to the tree
C12_MissingRoomRejected ==
    \A q \in RequestIds :
        RoomMissingAfterSync(q) =>
            LET post == waitSettled(Call(q), "resolved", Backend)
            IN  /\ post.req.outcome = "rejected"
                /\ post.s = Cur

\* C21: when the selected room is deleted, by a room-deleted event or by a membership
\* event to leave or ban, selectedRoom no longer refers to it, wherever the node
\* was held
C21_SelectionClearedOnDelete ==
    \A X \in IDs :
        (selectedRoom = X /\ Holders(Cur, X) # {})
        => /\ onClientEventDeleteRoom(Cur, X).selectedRoom # X
           /\ \A m \in {"leave", "ban"} :
                 membership[X] # Unknown => AfterMembership(X, m).selectedRoom # X

\* C22: saveVariable(key, value) resolves at once and changes nothing (map, subscriber,
\* queries) when the stored value is strictly identical to value and value is not of
\* object type; otherwise it stores value under key, emits it to the key's subscriber
\* if there is one, and sends exactly one setVariable query with key and value
C22_SaveOnlyChanges ==
    \A key \in Keys, value \in JsValues :
        LET post == saveVariable(StateCommands, key, value)
            stored == IF variables[key] = Absent THEN "undefined" ELSE variables[key]
            identical == stored = value /\ value # "NaN"
            primitive == value \notin {"null", "o1"}
        IN  IF identical /\ primitive
            THEN /\ post.returned = "resolved"
                 /\ post.variables = variables
                 /\ post.emitted = emitted
                 /\ post.queries = queries
            ELSE /\ post.variables = [variables EXCEPT ![key] = value]
                 /\ post.emitted = IF key \in variableSubscribers
                                    THEN emitted \o <<[key |-> key, value |-> value]>>
                                    ELSE emitted
                 /\ post.queries = queries \o <<[type |-> "setVariable", key |-> key, value |-> value]>>
                 /\ post.returned = "query"

\* the same object was saved twice under a subscribed key, both times stored, emitted
\* and sent, and then a save of an unchanged primitive returned at once
C22_Witness ==
    /\ Len(queries) = 2
    /\ queries[1] = queries[2]
    /\ queries[1].value = "o1"
    /\ Len(emitted) = 2
    /\ saveReturned = "resolved"

\* C23: when remote events have placed the room of a suspended joinRoom(id) in the tree,
\* at root or inside its parent folder, the completion of joinRoom leaves id held by
\* exactly one container
C23_JoinKeepsOneHolder ==
    \A q \in RequestIds :
        LET r == requests[q]
            post == waitSettled(Call(q), "resolved", Backend)
        IN  (/\ r.op = "joinRoom" /\ r.stage = "wait"
             /\ "resolved" \in WaitResults(r, client)
             /\ membership[r.arg] # Unknown
             /\ Cardinality(Holders(Cur, r.arg)) = 1)
            => /\ post.req.outcome = "resolved"
               /\ Cardinality(Holders(post.s, r.arg)) = 1

\* a call of createDirectRoom(u) other than q has not settled yet
CreationPending(q, u) ==
    \E p \in RequestIds \ {q} :
        /\ requests[p].op = "createDirectRoom" /\ requests[p].arg = u
        /\ requests[p].stage \in {"createRoom", "wait"}

\* C24: a call of createDirectRoom(u) made while the root list holds a direct room
\* with u, or while another createDirectRoom(u) is pending, issues no createRoom
\* request to the backend
C24_OneCreationPerUser ==
    \A q \in RequestIds, u \in Arguments("createDirectRoom") :
        (/\ client /\ requests[q].stage = "idle"
         /\ \/ DirectRanks(u) # {}
            \/ CreationPending(q, u))
        => invoke(Call(q), "createDirectRoom", u, client).req.stage # "createRoom"

\* the call q of createRoom or createDirectRoom has not settled yet
Creating(q) ==
    /\ requests[q].op \in {"createRoom", "createDirectRoom"}
    /\ requests[q].stage \in {"createRoom", "wait"}

\* C25: roomCreationInProgress is true exactly in the states in which a creation by
\* createRoom or createDirectRoom is pending, also when such calls overlap or fail
C25_InProgressIffPending ==
    roomCreationInProgress <=> \E q \in RequestIds : Creating(q)

\* the wait w has settled: it resolved or it was rejected
Settled(w) == waits[w].promise \in {"resolved", "timeout", "notInitialized"}

\* the wait w is pending and its time has not run out
Waiting(w) ==
    waits[w].promise = "pending" /\ waits[w].timer /\ waits[w].elapsed < SyncTimeout

\* C26: a wait settles exactly once: a Syncing notification that arrives before the
\* timeout resolves it, cancels its timer and deregisters its listener; a notification
\* with any other state leaves it as it is; once settled, neither its timer nor its
\* listener is active, so nothing can settle it again
C26_SettlesExactlyOnce ==
    \A w \in WaitIds :
        /\ (client /\ Waiting(w)) =>
              LET post == EmitSync(Sync, syncListeners, "SYNCING")
              IN  /\ post.waits[w].promise = "resolved"
                  /\ ~post.waits[w].timer
                  /\ w \notin post.syncListeners
        /\ \A state \in SyncStates \ {"SYNCING"} :
              LET post == EmitSync(Sync, syncListeners, state)
              IN  /\ post.waits[w].promise = waits[w].promise
                  /\ post.waits[w].timer = waits[w].timer
                  /\ (w \in post.syncListeners) = (w \in syncListeners)
        /\ Settled(w) => (~waits[w].timer /\ w \notin syncListeners)

====
